---- MODULE Spec2Model ----
(***************************************************************************)
(* Model of src/bgp/bgp_path.cc: the BgpPath best-path comparator          *)
(* (BgpPath::PathCompare), the peer path accounting hook                   *)
(* (BgpPath::UpdatePeerRefCount) and the flag presentation                 *)
(* (BgpPath::GetFlagsStringList).                                          *)
(*                                                                         *)
(* The pure functions are operators.  Each specification below draws the   *)
(* inputs of one of them in its initial states and applies it in its       *)
(* actions:                                                                *)
(*   Spec        two paths,   PathCompare in both modes, both directions   *)
(*   SpecTriple  three paths, PathCompare(.., false) on every ordered pair *)
(*   SpecRef     a sequence of UpdatePeerRefCount calls on peers' counters *)
(*   SpecFlags   a flag word, GetFlagsStringList                           *)
(***************************************************************************)
EXTENDS Integers, Sequences, FiniteSets

VARIABLES
    paths,                \* the BgpPath objects handed to the comparator
    pc,                   \* "start" before the calls, "done" after them
    ret,                  \* ret[<<i, j, allow_ecmp>>]: PathCompare's result
    total_path_count,     \* per peer: IPeer total path counter
    primary_path_count,   \* per peer: IPeer primary path counter
    calls,                \* history of the UpdatePeerRefCount calls made
    flags_,               \* the flag word given to GetFlagsStringList
    flag_names            \* the vector<string> it returned

vars == <<paths, pc, ret, total_path_count, primary_path_count, calls,
          flags_, flag_names>>

----------------------------------------------------------------------------
(* Bounds of the model *)

\* b (and c) differ from a in at most this many fields, in Spec
MaxDiff == 2
\* b and c each differ from a in at most this many fields, in SpecTriple
MaxDiffTriple == 2
\* number of UpdatePeerRefCount calls in a run of SpecRef
MaxCalls == 3

----------------------------------------------------------------------------
(* Program constants *)

\* peer_(NULL): a path with no peer
NULL == 0

\* BgpPath::PathSource, in declared order
None == 0
BGP_XMPP == 1
ServiceChain == 2
StaticRoute == 3
Aggregate == 4
Local == 5

PathSource == {None, BGP_XMPP, ServiceChain, StaticRoute, Aggregate, Local}

\* BgpPath::PathFlag, one bit each, in declared order
AsPathLooped == 1
NoNeighborAs == 2
Stale == 4
NoTunnelEncap == 8
OriginatorIdLooped == 16
ResolveNexthop == 32
ResolvedPath == 64
RoutingPolicyReject == 128
LlgrStale == 256

PathFlag == <<AsPathLooped, NoNeighborAs, Stale, NoTunnelEncap,
              OriginatorIdLooped, ResolveNexthop, ResolvedPath,
              RoutingPolicyReject, LlgrStale>>

\* flags_ & flag
HasFlag(flags, flag) == (flags \div flag) % 2 = 1

----------------------------------------------------------------------------
(* The peers (IPeer): external, long lived, referenced by id.              *)
(*   xmpp            IsXmppPeer()                                          *)
(*   type            PeerType()                                            *)
(*   bgp_identifier  bgp_identifier()                                      *)
(*   bgp_peer        dynamic_cast<const BgpPeer *> succeeds                *)
(*   peer_key        BgpPeer::peer_key()                                   *)

PeerTable ==
    << [xmpp |-> FALSE, type |-> "EBGP", bgp_identifier |-> 1,
        bgp_peer |-> TRUE,  peer_key |-> 1],
       [xmpp |-> FALSE, type |-> "IBGP", bgp_identifier |-> 1,
        bgp_peer |-> TRUE,  peer_key |-> 1],
       [xmpp |-> TRUE,  type |-> "XMPP", bgp_identifier |-> 1,
        bgp_peer |-> FALSE, peer_key |-> 0],
       [xmpp |-> FALSE, type |-> "EBGP", bgp_identifier |-> 2,
        bgp_peer |-> TRUE,  peer_key |-> 2],
       [xmpp |-> FALSE, type |-> "EBGP", bgp_identifier |-> 1,
        bgp_peer |-> TRUE,  peer_key |-> 2] >>

PeerIds == 1..Len(PeerTable)

----------------------------------------------------------------------------
(* BgpPath: peer_, path_id_, source_, flags_ and the fields of attr_ that *)
(* the code reads.  community is the attr_->community() pointer: <<>> is  *)
(* a null pointer, <<S>> a community list with the values S.              *)

BasePath(ovp, nas, peer) ==
    [ peer                |-> peer,
      path_id             |-> 0,
      source              |-> BGP_XMPP,
      flags               |-> 0,
      feasible            |-> TRUE,
      replicated          |-> FALSE,
      local_pref          |-> 100,
      sequence_number     |-> 0,
      community           |-> <<>>,
      origin_vn_path      |-> ovp,
      as_path_count       |-> 2,
      origin              |-> 0,
      neighbor_as         |-> nas,
      med                 |-> 0,
      originator_id       |-> 0,
      cluster_list_length |-> 0 ]

\* bool IsFeasible() const
IsFeasible(p) == p.feasible

\* bool IsLlgrStale() const
IsLlgrStale(p) == HasFlag(p.flags, LlgrStale)

\* virtual bool IsReplicated() const
IsReplicated(p) == p.replicated

----------------------------------------------------------------------------
(* BgpPath::PathCompare.  Every step of the cascade is an operator that    *)
(* gives -1 or 1 where the code returns there and 0 where it falls         *)
(* through to the next step.                                               *)

\* C++ orders bool as false < true
BoolKey(x) == IF x THEN 1 ELSE 0

\* KEY_COMPARE(x, y): if (x < y) return -1; if (x > y) return 1;
KEY_COMPARE(x, y) == IF x < y THEN -1 ELSE IF x > y THEN 1 ELSE 0

BOOL_COMPARE_SameSign(CondA, CondB) ==
    IF CondA THEN (IF ~CondB THEN -1 ELSE 0)
             ELSE (IF CondB THEN -1 ELSE 0)

\* BOOL_COMPARE(CondA, CondB): true is better
BOOL_COMPARE(CondA, CondB) ==
    IF CondA THEN (IF ~CondB THEN -1 ELSE 0)
             ELSE (IF CondB THEN 1 ELSE 0)

\* the first step of the cascade that returns
RECURSIVE FirstReturn(_)
FirstReturn(steps) ==
    IF steps = <<>> THEN 0
    ELSE IF Head(steps) # 0 THEN Head(steps)
    ELSE FirstReturn(Tail(steps))

\* Feasible Path first
CompareFeasible(lhs, rhs) ==
    KEY_COMPARE(BoolKey(IsFeasible(rhs)), BoolKey(IsFeasible(lhs)))

\* Compare local_pref in reverse order as larger is better.
CompareLocalPref(lhs, rhs) == KEY_COMPARE(rhs.local_pref, lhs.local_pref)

\* Compare sequence_number in reverse order as larger is better.
CompareSequenceNumber(lhs, rhs) ==
    KEY_COMPARE(rhs.sequence_number, lhs.sequence_number)

\* llgr_stale: community() && community()->ContainsValue(LlgrStale),
\* then |= IsLlgrStale()
llgr_stale(p) ==
    \/ (Len(p.community) > 0 /\ "LlgrStale" \in p.community[1])
    \/ IsLlgrStale(p)

\* Route without LLGR_STALE community is always preferred over one with.
CompareLlgrStale(lhs, rhs) ==
    KEY_COMPARE(BoolKey(llgr_stale(lhs)), BoolKey(llgr_stale(rhs)))

CompareAsPathEarly_Always(lhs, rhs) ==
    KEY_COMPARE(lhs.as_path_count, rhs.as_path_count)

\* Do not compare as path length for service chain paths at this point.
CompareAsPathEarly(lhs, rhs) ==
    IF ~lhs.origin_vn_path \/ ~rhs.origin_vn_path
    THEN KEY_COMPARE(lhs.as_path_count, rhs.as_path_count)
    ELSE 0

CompareOrigin(lhs, rhs) == KEY_COMPARE(lhs.origin, rhs.origin)

CompareMed_AnyNeighborAs(lhs, rhs) ==
    IF lhs.neighbor_as # 0
    THEN KEY_COMPARE(lhs.med, rhs.med)
    ELSE 0

CompareMed_ZeroAsToo(lhs, rhs) ==
    IF lhs.neighbor_as = rhs.neighbor_as
    THEN KEY_COMPARE(lhs.med, rhs.med)
    ELSE 0

\* Compare med if both paths are learnt from the same neighbor as.
CompareMed(lhs, rhs) ==
    IF lhs.neighbor_as # 0 /\ lhs.neighbor_as = rhs.neighbor_as
    THEN KEY_COMPARE(lhs.med, rhs.med)
    ELSE 0

\* the steps before "if (allow_ecmp) return 0"
CompareEcmpSteps(lhs, rhs) ==
    FirstReturn(<< CompareFeasible(lhs, rhs),
                   CompareLocalPref(lhs, rhs),
                   CompareSequenceNumber(lhs, rhs),
                   CompareLlgrStale(lhs, rhs),
                   CompareAsPathEarly(lhs, rhs),
                   CompareOrigin(lhs, rhs),
                   CompareMed(lhs, rhs) >>)

\* Compare as path length for service chain paths since we bypassed the
\* check previously.
CompareAsPathDeferred(lhs, rhs) ==
    IF lhs.origin_vn_path /\ rhs.origin_vn_path
    THEN KEY_COMPARE(lhs.as_path_count, rhs.as_path_count)
    ELSE 0

CompareLocal_PeerFirst(lhs, rhs) ==
    BOOL_COMPARE(lhs.peer # NULL, rhs.peer # NULL)

\* Prefer locally generated routes over bgp and xmpp routes.
CompareLocal(lhs, rhs) == BOOL_COMPARE(lhs.peer = NULL, rhs.peer = NULL)

CompareSource_LowerFirst(lhs, rhs) == KEY_COMPARE(lhs.source, rhs.source)

\* Compare the source and the path id.
CompareSource(lhs, rhs) == KEY_COMPARE(rhs.source, lhs.source)

ComparePathId(lhs, rhs) == KEY_COMPARE(lhs.path_id, rhs.path_id)

\* Prefer xmpp routes over bgp routes.
CompareXmpp(lhs, rhs) ==
    BOOL_COMPARE(PeerTable[lhs.peer].xmpp, PeerTable[rhs.peer].xmpp)

\* Path received from EBGP is better than the one received from IBGP
ComparePeerType(lhs, rhs) ==
    KEY_COMPARE(BoolKey(PeerTable[lhs.peer].type = "IBGP"),
                BoolKey(PeerTable[rhs.peer].type = "IBGP"))

\* id = orig_id ? orig_id : peer_->bgp_identifier()
RouterId(p) ==
    IF p.originator_id # 0 THEN p.originator_id
    ELSE PeerTable[p.peer].bgp_identifier

\* Lower router id is better.
CompareRouterId(lhs, rhs) == KEY_COMPARE(RouterId(lhs), RouterId(rhs))

CompareClusterList(lhs, rhs) ==
    KEY_COMPARE(lhs.cluster_list_length, rhs.cluster_list_length)

\* if (lpeer != NULL && rpeer != NULL) KEY_COMPARE(peer keys)
ComparePeerKey(lhs, rhs) ==
    IF PeerTable[lhs.peer].bgp_peer /\ PeerTable[rhs.peer].bgp_peer
    THEN KEY_COMPARE(PeerTable[lhs.peer].peer_key, PeerTable[rhs.peer].peer_key)
    ELSE 0

\* the steps after "if (allow_ecmp) return 0"
CompareStrictSteps(lhs, rhs) ==
    LET local == FirstReturn(<< CompareAsPathDeferred(lhs, rhs),
                                CompareLocal(lhs, rhs),
                                CompareSource(lhs, rhs) >>)
    IN  IF local # 0 THEN local
        ELSE IF lhs.peer = NULL /\ rhs.peer = NULL
             THEN ComparePathId(lhs, rhs)
        ELSE FirstReturn(<< CompareXmpp(lhs, rhs),
                            ComparePathId(lhs, rhs),
                            ComparePeerType(lhs, rhs),
                            CompareRouterId(lhs, rhs),
                            CompareClusterList(lhs, rhs),
                            ComparePeerKey(lhs, rhs) >>)

PathCompare_EcmpInverted(lhs, rhs, allow_ecmp) ==
    LET ecmp == CompareEcmpSteps(lhs, rhs)
    IN  IF ecmp # 0 THEN ecmp
        ELSE IF ~allow_ecmp THEN 0
        ELSE CompareStrictSteps(lhs, rhs)

\* int BgpPath::PathCompare(const BgpPath &rhs, bool allow_ecmp) const
PathCompare(lhs, rhs, allow_ecmp) ==
    LET ecmp == CompareEcmpSteps(lhs, rhs)
    IN  IF ecmp # 0 THEN ecmp
        ELSE IF allow_ecmp THEN 0
        ELSE CompareStrictSteps(lhs, rhs)

----------------------------------------------------------------------------
(* The paths the comparator is applied to.  A pair (or triple) is a base  *)
(* path a and paths that differ from a in a bounded number of fields, each *)
(* field taking any value of its domain.                                   *)

\* the values each field takes, in Spec
FieldValues ==
    [ peer                |-> {NULL} \cup PeerIds,
      path_id             |-> {0, 1},
      source              |-> PathSource,
      flags               |-> {0, Stale, LlgrStale},
      feasible            |-> BOOLEAN,
      local_pref          |-> {100, 200},
      sequence_number     |-> {0, 1},
      community           |-> {<<>>, <<{"NoExport"}>>, <<{"LlgrStale"}>>},
      origin_vn_path      |-> BOOLEAN,
      as_path_count       |-> {0, 1, 2},
      origin              |-> {0, 1, 2},
      neighbor_as         |-> {0, 1, 2},
      med                 |-> {0, 1},
      originator_id       |-> {0, 1, 2},
      cluster_list_length |-> {0, 1} ]

\* the values each field takes, in SpecTriple
FieldValuesTriple ==
    [ peer                |-> {NULL, 1, 4},
      path_id             |-> {0, 1},
      source              |-> {BGP_XMPP, ServiceChain},
      origin_vn_path      |-> BOOLEAN,
      as_path_count       |-> {0, 1, 2},
      origin              |-> {0, 1},
      neighbor_as         |-> {0, 1, 2},
      med                 |-> {0, 1},
      cluster_list_length |-> {0, 1} ]

BasePaths ==
    { BasePath(ovp, nas, peer) :
        ovp \in BOOLEAN, nas \in {0, 1}, peer \in {NULL, 1, 3} }

BasePathsTriple ==
    { BasePath(ovp, nas, 1) : ovp \in BOOLEAN, nas \in {0, 1} }

\* the paths that differ from p in at most k of the given fields: the
\* first of the fields is left as it is, or set to another of its values
RECURSIVE VariantsOn(_, _, _, _)
VariantsOn(p, fields, k, values) ==
    IF k = 0 \/ fields = {} THEN {p}
    ELSE LET f == CHOOSE g \in fields : TRUE
             rest == fields \ {f}
         IN  VariantsOn(p, rest, k, values) \cup
             UNION { VariantsOn([p EXCEPT ![f] = v], rest, k - 1, values) :
                       v \in values[f] \ {p[f]} }

\* the paths that differ from p in at most k fields
Variants(p, k, values) == VariantsOn(p, DOMAIN values, k, values)

----------------------------------------------------------------------------
(* Spec: PathCompare on a pair of paths *)

a == paths[1]
b == paths[2]
c == paths[3]

NoCounters == [p \in PeerIds |-> 0]

Init ==
    /\ \E x \in BasePaths : \E y \in Variants(x, MaxDiff, FieldValues) :
           paths = <<x, y>>
    /\ pc = "start"
    /\ ret = <<>>
    /\ total_path_count = NoCounters
    /\ primary_path_count = NoCounters
    /\ calls = <<>>
    /\ flags_ = 0
    /\ flag_names = <<>>

\* the selection code calls PathCompare on the two paths, either way round
\* and in either mode
ComparePair ==
    /\ pc = "start"
    /\ Len(paths) = 2
    /\ ret' = [k \in {1, 2} \X {1, 2} \X BOOLEAN |->
                   PathCompare(paths[k[1]], paths[k[2]], k[3])]
    /\ pc' = "done"
    /\ UNCHANGED <<paths, total_path_count, primary_path_count, calls,
                   flags_, flag_names>>

Next == ComparePair

Spec == Init /\ [][Next]_vars

----------------------------------------------------------------------------
(* SpecTriple: PathCompare(.., false) on three paths *)

InitTriple ==
    /\ \E x \in BasePathsTriple :
         \E y \in Variants(x, MaxDiffTriple, FieldValuesTriple) :
           \E z \in Variants(x, MaxDiffTriple, FieldValuesTriple) :
             paths = <<x, y, z>>
    /\ pc = "start"
    /\ ret = <<>>
    /\ total_path_count = NoCounters
    /\ primary_path_count = NoCounters
    /\ calls = <<>>
    /\ flags_ = 0
    /\ flag_names = <<>>

\* a sort of the three paths calls PathCompare(.., false) on every pair
CompareTriple ==
    /\ pc = "start"
    /\ Len(paths) = 3
    /\ ret' = [k \in {1, 2, 3} \X {1, 2, 3} \X {FALSE} |->
                   PathCompare(paths[k[1]], paths[k[2]], k[3])]
    /\ pc' = "done"
    /\ UNCHANGED <<paths, total_path_count, primary_path_count, calls,
                   flags_, flag_names>>

NextTriple == CompareTriple

SpecTriple == InitTriple /\ [][NextTriple]_vars

----------------------------------------------------------------------------
(* Properties of PathCompare on a pair, checked under Spec *)

Done == pc = "done"

\* PathCompare(paths[i], paths[j], allow_ecmp) as the action recorded it
Result(i, j, allow_ecmp) == ret[<<i, j, allow_ecmp>>]

\* the two paths agree on rules 1 to 4
TieToStale(x, y) ==
    /\ IsFeasible(x) = IsFeasible(y)
    /\ x.local_pref = y.local_pref
    /\ x.sequence_number = y.sequence_number
    /\ llgr_stale(x) = llgr_stale(y)

\* ... and on AS-path length and origin
TieToOrigin(x, y) ==
    /\ TieToStale(x, y)
    /\ x.as_path_count = y.as_path_count
    /\ x.origin = y.origin

\* both paths share the same non-zero neighbor-AS
SameNeighborAs(x, y) ==
    x.neighbor_as # 0 /\ x.neighbor_as = y.neighbor_as

\* ... and on MED where MED is compared
TieToMed(x, y) ==
    /\ TieToOrigin(x, y)
    /\ (SameNeighborAs(x, y) => x.med = y.med)

\* -1 when the lower of two different values is on the left
LowerWins(x, y) == IF x < y THEN -1 ELSE 1

\* C1: PathCompare is antisymmetric in both modes: for every pair of paths
\* a, b and for allow_ecmp in {true, false},
\* PathCompare(a, b, allow_ecmp) = -PathCompare(b, a, allow_ecmp).
C1_Antisymmetric ==
    Done => \A e \in BOOLEAN : Result(1, 2, e) = -Result(2, 1, e)

\* an XMPP-peer path against a BGP-peer path, one with an originator id,
\* the same ECMP class, strictly ordered
C1_Witness ==
    /\ Done
    /\ a.peer # NULL /\ b.peer # NULL
    /\ PeerTable[a.peer].xmpp /\ ~PeerTable[b.peer].xmpp
    /\ b.originator_id # 0
    /\ Result(1, 2, TRUE) = 0
    /\ Result(1, 2, FALSE) = -1 /\ Result(2, 1, FALSE) = 1

\* C3 as claimed: for two paths that tie on every rule before the source
\* tie-break (feasibility, local preference, sequence number, LLGR-stale
\* status, AS-path length, origin, MED, peer presence), PathCompare(a, b,
\* false) returns -1 when a.source < b.source (the lower enum value wins).
C3_LowerSourceWins ==
    (/\ Done
     /\ TieToMed(a, b)
     /\ (a.peer = NULL) = (b.peer = NULL)
     /\ a.source < b.source)
    => Result(1, 2, FALSE) = -1

\* C3 as amended: for two paths that tie on every rule before the source
\* tie-break and whose source values differ, PathCompare(a, b, false) ranks
\* the path with the HIGHER source enum value as better: it returns -1 when
\* a.source > b.source and 1 when a.source < b.source.
C3_HigherSourceWins ==
    (/\ Done
     /\ TieToMed(a, b)
     /\ (a.peer = NULL) = (b.peer = NULL)
     /\ a.source # b.source)
    => Result(1, 2, FALSE) = LowerWins(b.source, a.source)

\* a Local path against a BGP_XMPP path, tied before the source step, with
\* the path id pointing the other way
C3_Witness ==
    /\ Done
    /\ TieToMed(a, b)
    /\ (a.peer = NULL) = (b.peer = NULL)
    /\ a.source = BGP_XMPP /\ b.source = Local
    /\ a.path_id < b.path_id
    /\ Result(1, 2, FALSE) = 1

\* C4 as claimed: for any two paths that are equally feasible and have
\* equal local preference, one with no peer and one with a peer,
\* PathCompare(no_peer_path, peer_path, false) is negative.
C4_LocalBeatsPeerOnLocalPref ==
    (/\ Done
     /\ IsFeasible(a) = IsFeasible(b)
     /\ a.local_pref = b.local_pref
     /\ a.peer = NULL /\ b.peer # NULL)
    => Result(1, 2, FALSE) < 0

\* C4 as amended: for any two paths that tie on every rule before the
\* locally-generated step (feasibility, local preference, sequence number,
\* LLGR-stale status, AS-path length, origin, and MED where both share a
\* non-zero neighbor-AS), one with no peer and one with a peer,
\* PathCompare(no_peer_path, peer_path, false) returns -1.
C4_LocalBeatsPeerOnTie ==
    (/\ Done
     /\ TieToMed(a, b)
     /\ a.peer = NULL /\ b.peer # NULL)
    => Result(1, 2, FALSE) = -1

\* a no-peer path against a peer path with the better source
C4_Witness ==
    /\ Done
    /\ TieToMed(a, b)
    /\ a.peer = NULL /\ b.peer # NULL
    /\ a.source < b.source
    /\ Result(1, 2, FALSE) = -1

\* what two paths of one ECMP class agree on
EcmpAgree(x, y) ==
    /\ TieToStale(x, y)
    /\ x.origin = y.origin
    /\ ((x.origin_vn_path /\ y.origin_vn_path)
           \/ x.as_path_count = y.as_path_count)
    /\ (SameNeighborAs(x, y) => x.med = y.med)

\* C5: ECMP monotonicity: PathCompare(a, b, true) = 0 exactly when a and b
\* have the same feasibility, local preference, sequence number, LLGR-stale
\* status (community marker OR LlgrStale flag) and origin, the same AS-path
\* length unless both carry the service-chain origin marker, and the same
\* MED whenever they share the same non-zero neighbor-AS; peer, source,
\* path id, router id, cluster-list length and peer key play no part.
C5_EcmpMonotone ==
    Done => ((Result(1, 2, TRUE) = 0) <=> EcmpAgree(a, b))

\* two service-chain paths of one ECMP class with different AS-path
\* lengths and peers
C5_Witness ==
    /\ Done
    /\ Result(1, 2, TRUE) = 0
    /\ a.origin_vn_path /\ b.origin_vn_path
    /\ a.as_path_count # b.as_path_count
    /\ a.peer # b.peer

\* C6: service-chain deferral: for two paths that both carry the
\* service-chain origin marker and are identical except for AS-path length,
\* PathCompare(a, b, true) = 0 while PathCompare(a, b, false) ranks the
\* shorter AS-path better; and for two marker-carrying paths tied on rules
\* 1 to 4, a difference in origin, or else in gated MED, decides the result
\* in both modes whatever the AS-path lengths are.
C6_ServiceChainDeferral ==
    (Done /\ a.origin_vn_path /\ b.origin_vn_path) =>
      /\ (/\ a.as_path_count # b.as_path_count
          /\ b = [a EXCEPT !.as_path_count = b.as_path_count])
         => /\ Result(1, 2, TRUE) = 0
            /\ Result(1, 2, FALSE) = LowerWins(a.as_path_count, b.as_path_count)
      /\ (TieToStale(a, b) /\ a.origin # b.origin)
         => \A e \in BOOLEAN : Result(1, 2, e) = LowerWins(a.origin, b.origin)
      /\ (/\ TieToStale(a, b) /\ a.origin = b.origin
          /\ SameNeighborAs(a, b) /\ a.med # b.med)
         => \A e \in BOOLEAN : Result(1, 2, e) = LowerWins(a.med, b.med)

\* two service-chain paths that differ in AS-path length only
C6_Witness ==
    /\ Done
    /\ a.origin_vn_path /\ b.origin_vn_path
    /\ a.as_path_count > b.as_path_count
    /\ b = [a EXCEPT !.as_path_count = b.as_path_count]
    /\ Result(1, 2, TRUE) = 0
    /\ Result(1, 2, FALSE) = 1

\* C7: MED gating: for two paths that tie on feasibility, local preference,
\* sequence number, LLGR-stale status, AS-path length and origin: when
\* their neighbor-AS values differ or are zero, PathCompare(a, b, true) = 0
\* whatever their MED values are; when both share the same non-zero
\* neighbor-AS and MED differs, the lower MED is ranked better in both
\* modes.
C7_MedGating ==
    (Done /\ TieToOrigin(a, b)) =>
      /\ ~SameNeighborAs(a, b) => Result(1, 2, TRUE) = 0
      /\ (SameNeighborAs(a, b) /\ a.med # b.med)
         => \A e \in BOOLEAN : Result(1, 2, e) = LowerWins(a.med, b.med)

\* two paths with different MED and different neighbor-AS, the left one's
\* non-zero
C7_Witness ==
    /\ Done
    /\ TieToOrigin(a, b)
    /\ a.neighbor_as # 0
    /\ a.neighbor_as # b.neighbor_as
    /\ a.med # b.med
    /\ Result(1, 2, TRUE) = 0

\* C10: the ECMP comparison is a coarsening of the strict comparison: if
\* PathCompare(a, b, true) # 0 then PathCompare(a, b, false) returns the
\* same value, and if PathCompare(a, b, false) = 0 then
\* PathCompare(a, b, true) = 0.
C10_EcmpCoarsens ==
    Done => \A i, j \in {1, 2} :
              /\ Result(i, j, TRUE) # 0
                   => Result(i, j, FALSE) = Result(i, j, TRUE)
              /\ Result(i, j, FALSE) = 0 => Result(i, j, TRUE) = 0

\* a peer path that beats a no-peer path in both modes, by MED
C10_Witness ==
    /\ Done
    /\ a.peer # NULL /\ b.peer = NULL
    /\ TieToOrigin(a, b)
    /\ Result(1, 2, TRUE) = -1
    /\ Result(1, 2, FALSE) = -1

----------------------------------------------------------------------------
(* Properties of PathCompare(.., false) on a triple, checked under         *)
(* SpecTriple                                                              *)

Strict(i, j) == Result(i, j, FALSE)

\* AS-path length is compared at the same step for every pair: all three
\* paths carry the service-chain origin marker, or at most one does
SameAsPathStep ==
    Cardinality({i \in {1, 2, 3} : paths[i].origin_vn_path}) # 2

\* MED is compared for every pair or for none
SameMedStep ==
    \/ \A i, j \in {1, 2, 3} : SameNeighborAs(paths[i], paths[j])
    \/ \A i, j \in {1, 2, 3} :
         i # j => ~SameNeighborAs(paths[i], paths[j])

\* C2 as claimed: PathCompare with allow_ecmp=false is transitive: for all
\* paths a, b, c, if PathCompare(a, b, false) < 0 and PathCompare(b, c,
\* false) < 0 then PathCompare(a, c, false) < 0, also when some but not all
\* of the three carry the service-chain origin marker and when MED is
\* compared for some pairs and not for others.
C2_Transitive ==
    Done => \A i, j, k \in {1, 2, 3} :
              (Strict(i, j) < 0 /\ Strict(j, k) < 0) => Strict(i, k) < 0

\* C2 as amended: PathCompare with allow_ecmp=false is transitive on every
\* triple of paths in which AS-path length is compared at the same step for
\* all pairs (all three carry the service-chain origin marker, or at most
\* one does) and MED is compared for all pairs or for none (all three share
\* one non-zero neighbor-AS, or no two share a non-zero neighbor-AS).
C2_TransitiveOnUniformTriples ==
    (Done /\ SameAsPathStep /\ SameMedStep) =>
      \A i, j, k \in {1, 2, 3} :
        (Strict(i, j) < 0 /\ Strict(j, k) < 0) => Strict(i, k) < 0

\* a chain a < b < c with one marker-carrying path and neighbor-AS values
\* no two paths share
C2_Witness ==
    /\ Done
    /\ SameAsPathStep /\ SameMedStep
    /\ Cardinality({i \in {1, 2, 3} : paths[i].origin_vn_path}) = 1
    /\ b.neighbor_as # 0 /\ c.neighbor_as # 0
    /\ b.med # c.med
    /\ Strict(2, 3) < 0 /\ Strict(3, 1) < 0 /\ Strict(2, 1) < 0

----------------------------------------------------------------------------
(* BgpPath::UpdatePeerRefCount and SpecRef: a sequence of calls on the     *)
(* peers' counters                                                         *)

PrimaryCounted_BothNeeded(path) ==
    ~(path.source # BGP_XMPP /\ IsReplicated(path))

\* if (source_ != BGP_XMPP || IsReplicated()) return;
PrimaryCounted(path) ==
    ~(path.source # BGP_XMPP \/ IsReplicated(path))

\* void BgpPath::UpdatePeerRefCount(int count) const
UpdatePeerRefCount(path, count) ==
    /\ Len(calls) < MaxCalls
    /\ calls' = Append(calls, [path |-> path, count |-> count])
    /\ IF path.peer = NULL
       THEN UNCHANGED <<total_path_count, primary_path_count>>
       ELSE /\ total_path_count' =
                 [total_path_count EXCEPT ![path.peer] = @ + count]
            /\ IF PrimaryCounted(path)
               THEN primary_path_count' =
                      [primary_path_count EXCEPT ![path.peer] = @ + count]
               ELSE UNCHANGED primary_path_count
    /\ UNCHANGED <<paths, pc, ret, flags_, flag_names>>

\* the paths the calls are made on: with and without a peer, learnt and
\* not, primary and replicated
RefPaths ==
    { [BasePath(FALSE, 0, peer) EXCEPT !.source = src, !.replicated = repl] :
        peer \in {NULL, 1, 2}, src \in {BGP_XMPP, ServiceChain},
        repl \in BOOLEAN }

InitRef ==
    /\ paths = <<>>
    /\ pc = "start"
    /\ ret = <<>>
    /\ total_path_count = NoCounters
    /\ primary_path_count = NoCounters
    /\ calls = <<>>
    /\ flags_ = 0
    /\ flag_names = <<>>

\* count is 1 when the path is inserted, -1 when it is removed
NextRef == \E path \in RefPaths, count \in {1, -1} :
               UpdatePeerRefCount(path, count)

SpecRef == InitRef /\ [][NextRef]_vars

\* the sum of count over the calls made on paths that reference the peer
RECURSIVE SumOnPeer(_, _)
SumOnPeer(log, peer) ==
    IF log = <<>> THEN 0
    ELSE SumOnPeer(Tail(log), peer)
         + (IF Head(log).path.peer = peer THEN Head(log).count ELSE 0)

\* the same, over the calls on BGP_XMPP paths that are not replicated
RECURSIVE SumOnPeerPrimary(_, _)
SumOnPeerPrimary(log, peer) ==
    IF log = <<>> THEN 0
    ELSE SumOnPeerPrimary(Tail(log), peer)
         + (IF /\ Head(log).path.peer = peer
               /\ Head(log).path.source = BGP_XMPP
               /\ ~Head(log).path.replicated
            THEN Head(log).count ELSE 0)

\* C8: peer path accounting: after any sequence of UpdatePeerRefCount
\* calls, each peer's total-path counter is the sum of count over the calls
\* made on paths referencing that peer, and its primary-path counter the
\* sum over those of them made on BGP_XMPP paths that are not replicated;
\* so a call on a path with no peer, or on another peer's path, changes
\* no counter of the peer.
C8_PeerAccounting ==
    \A peer \in PeerIds :
      /\ total_path_count[peer] = SumOnPeer(calls, peer)
      /\ primary_path_count[peer] = SumOnPeerPrimary(calls, peer)

\* a call on a no-peer path, one on a replicated BGP_XMPP path of peer 1
\* and one on a primary BGP_XMPP path of peer 1
C8_Witness ==
    /\ Len(calls) = 3
    /\ \E i \in 1..3 : calls[i].path.peer = NULL
    /\ \E i \in 1..3 : /\ calls[i].path.peer = 1
                       /\ calls[i].path.source = BGP_XMPP
                       /\ calls[i].path.replicated
    /\ total_path_count[1] = 2
    /\ primary_path_count[1] = 1
    /\ total_path_count[2] = 0

----------------------------------------------------------------------------
(* BgpPath::GetFlagsStringList and SpecFlags *)

\* the vector<PathFlag> of the flags set, in the order of the tests
FlagList(flags) == SelectSeq(PathFlag, LAMBDA flag : HasFlag(flags, flag))

FlagName_StaleAsLlgrStale(flag) ==
    CASE flag = AsPathLooped        -> "AsPathLooped"
      [] flag = NoNeighborAs        -> "NoNeighborAs"
      [] flag = Stale               -> "LlgrStale"
      [] flag = NoTunnelEncap       -> "NoTunnelEncap"
      [] flag = OriginatorIdLooped  -> "OriginatorIdLooped"
      [] flag = ResolveNexthop      -> "ResolveNexthop"
      [] flag = ResolvedPath        -> "ResolvedPath"
      [] flag = RoutingPolicyReject -> "RoutingPolicyReject"
      [] flag = LlgrStale           -> "LlgrStale"

\* switch (flag)
FlagName(flag) ==
    CASE flag = AsPathLooped        -> "AsPathLooped"
      [] flag = NoNeighborAs        -> "NoNeighborAs"
      [] flag = Stale               -> "Stale"
      [] flag = NoTunnelEncap       -> "NoTunnelEncap"
      [] flag = OriginatorIdLooped  -> "OriginatorIdLooped"
      [] flag = ResolveNexthop      -> "ResolveNexthop"
      [] flag = ResolvedPath        -> "ResolvedPath"
      [] flag = RoutingPolicyReject -> "RoutingPolicyReject"
      [] flag = LlgrStale           -> "LlgrStale"

\* vector<string> BgpPath::GetFlagsStringList() const
GetFlagsStringList(flags) ==
    IF flags = 0 THEN <<"None">>
    ELSE LET list == FlagList(flags)
         IN  [i \in 1..Len(list) |-> FlagName(list[i])]

\* every subset of the nine flags
FlagWords == 0..(2 * LlgrStale - 1)

InitFlags ==
    /\ paths = <<>>
    /\ pc = "start"
    /\ ret = <<>>
    /\ total_path_count = NoCounters
    /\ primary_path_count = NoCounters
    /\ calls = <<>>
    /\ flags_ \in FlagWords
    /\ flag_names = <<>>

RenderFlags ==
    /\ pc = "start"
    /\ flag_names' = GetFlagsStringList(flags_)
    /\ pc' = "done"
    /\ UNCHANGED <<paths, ret, total_path_count, primary_path_count, calls,
                   flags_>>

NextFlags == RenderFlags

SpecFlags == InitFlags /\ [][NextFlags]_vars

\* the flags' names in declared order; the i-th flag is bit i-1 of the word
DeclaredNames ==
    << "AsPathLooped", "NoNeighborAs", "Stale", "NoTunnelEncap",
       "OriginatorIdLooped", "ResolveNexthop", "ResolvedPath",
       "RoutingPolicyReject", "LlgrStale" >>

DeclaredIndex(name) ==
    CHOOSE i \in DOMAIN DeclaredNames : DeclaredNames[i] = name

\* C9: flag rendering: for every subset of the nine flags,
\* GetFlagsStringList returns exactly the names of the set flags, each
\* once, in declared order; for the empty set it returns ["None"], and
\* "None" never appears in the list of a non-empty set.
C9_FlagRendering ==
    Done =>
      /\ flags_ = 0 => flag_names = <<"None">>
      /\ flags_ # 0 =>
           /\ \A k \in DOMAIN flag_names :
                \E i \in DOMAIN DeclaredNames : flag_names[k] = DeclaredNames[i]
           /\ \A i \in DOMAIN DeclaredNames :
                HasFlag(flags_, 2 ^ (i - 1))
                  <=> \E k \in DOMAIN flag_names :
                        flag_names[k] = DeclaredNames[i]
           /\ \A k1, k2 \in DOMAIN flag_names :
                k1 < k2 => DeclaredIndex(flag_names[k1])
                             < DeclaredIndex(flag_names[k2])

\* a word with the second, third and last flag set
C9_Witness ==
    /\ Done
    /\ flags_ = NoNeighborAs + Stale + LlgrStale
    /\ flag_names = <<"NoNeighborAs", "Stale", "LlgrStale">>

====
